---- MODULE Spec2Model ----
(***************************************************************************)
(* Model of src/src/App.jsx: the scroll choreographer (the per-frame       *)
(* `animate` callback of App's second effect, with its waypoint lookup),   *)
(* the CardFan carousel timer and the marquee hover debounce.              *)
(*                                                                         *)
(* Numbers.  The JavaScript code computes with doubles.  Here every pose   *)
(* value (vw, vh, degrees, scale factor) and every normalised progress is  *)
(* a fixed-point integer counting thousandths (Unit), and every division   *)
(* or multiplication by a fraction rounds to the nearest thousandth        *)
(* (RoundDiv), as floating point rounds to the nearest double.  Pixels     *)
(* (scroll offset, viewport height, scroll height) are plain integers.     *)
(***************************************************************************)
EXTENDS Integers, Sequences, FiniteSets, TLC

VARIABLES
  \* ---- scroll choreographer (App, second effect) ----
  scrollY,              \* window.scrollY, pixels
  winHeight,            \* window.innerHeight captured when the effect ran
  scrollHeight,         \* document.documentElement.scrollHeight
  current,              \* the pose {x, y, rotX, rotY, scale}
  wasInAnimationPhase,  \* the was-animating flag
  rafId,                \* handle of the last requestAnimationFrame call
  pendingFrames,        \* handles of the frame callbacks the host still holds
  modelRotation,        \* modelRotationRef.current {x, y}
  transform,            \* what container.style.transform was last built from
  torn,                 \* the effect's cleanup has run
  last,                 \* history: what the last tick read, computed and did
  held,                 \* history: ticks since the scroll offset last changed
  start,                \* history: pose and flag when the offset last changed
  scrolls,              \* history: number of scroll changes so far
  atTeardown,           \* history: pose and rotation scalars at cleanup
  \* ---- waypoint lookup called on its own ----
  lookupIn,             \* the progress handed to getTargetFromScroll
  lookupOut,            \* what it returned
  lookupDone,           \* the call has been made
  \* ---- CardFan carousel ----
  mounted,              \* the CardFan effect has run and not been cleaned up
  activeCard,
  isHovering,           \* isHoveringRef.current
  scrollAccum,          \* scrollAccum.current
  intervalRef,          \* intervalRef.current (0 models null)
  intervals,            \* handles of the intervals the host still runs
  pointerOnCard,        \* environment: the pointer is over a card
  autoTicks,            \* history: interval fires since mount
  undisturbed,          \* history: no hover and no wheel input since mount
  entered,              \* history: a hover-enter with no hover-leave after it
  cardEvent,            \* history: the last carousel event
  \* ---- marquee ----
  marqueePaused,
  marqueeTimeoutRef,    \* marqueeTimeoutRef.current (0 models null)
  timeouts,             \* handles of the timeouts the host still holds
  timeoutCount,         \* number of setTimeout calls so far (the last handle)
  pointerOnTrack,       \* environment: the pointer is over the marquee track
  lastHover,            \* history: the last hover event on the track
  pausedBy              \* history: handle of the timeout that last paused it

poseVars == <<scrollY, winHeight, scrollHeight, current, wasInAnimationPhase,
              rafId, pendingFrames, modelRotation, transform, torn, last,
              held, start, scrolls, atTeardown>>
lookupVars == <<lookupIn, lookupOut, lookupDone>>
cardVars == <<mounted, activeCard, isHovering, scrollAccum, intervalRef,
              intervals, pointerOnCard, autoTicks, undisturbed, entered,
              cardEvent>>
marqueeVars == <<marqueePaused, marqueeTimeoutRef, timeouts, timeoutCount,
                 pointerOnTrack, lastHover, pausedBy>>
vars == <<poseVars, lookupVars, cardVars, marqueeVars>>

(***************************************************************************)
(* Bounds of the model                                                     *)
(***************************************************************************)
\* ticks counted by `held`; the counter saturates here, ticks go on
HoldTicks == 60
\* scroll changes in one behaviour
MaxScrolls == 1
\* frame handles in use before the numbering wraps
FrameHandles == 2
\* auto-advance fires counted since mount
MaxAutoTicks == 7
\* setTimeout calls made by the marquee
MaxTimeouts == 3

\* viewport heights (px) the effect may capture
WinHeights == {600, 1000}
\* document heights (px): a long page, and a short one that leaves a range
\* of 0 after the threshold under the 600 px viewport and a negative one
\* under the 1000 px viewport
ScrollHeights == {750, 5750}
\* scroll offsets (px) the host may report: the top, both sides of the
\* threshold, progress 0.04 of the long page, and its end
ScrollOffsets == {0, 149, 150, 350, 5150}
\* wheel deltas (deltaY || deltaX)
WheelDeltas == {-90, -50, 50, 90}

(***************************************************************************)
(* Arithmetic                                                              *)
(***************************************************************************)
Unit == 10 * 10 * 10

Abs(a) == IF a < 0 THEN -a ELSE a

\* a / b rounded to the nearest integer, halves away from zero (b > 0)
RoundDiv(a, b) ==
  IF a >= 0 THEN (2 * a + b) \div (2 * b) ELSE -((2 * (-a) + b) \div (2 * b))

Min(a, b) == IF a < b THEN a ELSE b
Max(a, b) == IF a > b THEN a ELSE b

PoseFields == {"x", "y", "rotX", "rotY", "scale"}

(***************************************************************************)
(* The choreographer's constants and pure functions                        *)
(***************************************************************************)
STICKY_THRESHOLD == 150

\* faulty variant: the offset's share of the viewport is not turned into a percentage
StickyTargetYNoPercent(sy, wh) == 56 * Unit - RoundDiv(sy * Unit, wh)

\* 56 - (scrollY / winHeight * 100)
StickyTargetY(sy, wh) == 56 * Unit - RoundDiv(sy * 100 * Unit, wh)

RELEASE_Y(wh) == 56 * Unit - RoundDiv(STICKY_THRESHOLD * 100 * Unit, wh)

waypoints(wh) ==
  << [scrollStart |-> 0,    x |-> 30 * Unit, y |-> RELEASE_Y(wh), rotX |-> 0,          rotY |-> 0,          scale |-> Unit],
     [scrollStart |-> 80,   x |-> 85 * Unit, y |-> 35 * Unit,     rotX |-> 45 * Unit,  rotY |-> 90 * Unit,  scale |-> Unit],
     [scrollStart |-> 280,  x |-> 15 * Unit, y |-> 55 * Unit,     rotX |-> 90 * Unit,  rotY |-> 180 * Unit, scale |-> Unit],
     [scrollStart |-> 480,  x |-> 80 * Unit, y |-> 65 * Unit,     rotX |-> 135 * Unit, rotY |-> 270 * Unit, scale |-> Unit],
     [scrollStart |-> 630,  x |-> 50 * Unit, y |-> 50 * Unit,     rotX |-> 180 * Unit, rotY |-> 360 * Unit, scale |-> Unit],
     [scrollStart |-> 780,  x |-> 10 * Unit, y |-> 85 * Unit,     rotX |-> 270 * Unit, rotY |-> 540 * Unit, scale |-> Unit],
     [scrollStart |-> Unit, x |-> 50 * Unit, y |-> 92 * Unit,     rotX |-> 360 * Unit, rotY |-> 720 * Unit, scale |-> 300] >>

\* the five pose fields of a waypoint
PoseOf(w) ==
  [x |-> w.x, y |-> w.y, rotX |-> w.rotX, rotY |-> w.rotY, scale |-> w.scale]

\* faulty variant: the pose starts at the origin instead of the rest position
InitialPoseAtOrigin ==
  [x |-> 0, y |-> 0, rotX |-> 0, rotY |-> 0, scale |-> Unit]

\* let current = { x: 30, y: 56, rotX: 0, rotY: 0, scale: 1 }
InitialPose ==
  [x |-> 30 * Unit, y |-> 56 * Unit, rotX |-> 0, rotY |-> 0, scale |-> Unit]

\* start + (end - start) * factor, the factor in hundredths
lerp(s, e, factor) == s + RoundDiv((e - s) * factor, 100)

\* the loop of getTargetFromScroll: the first i whose pair brackets scrollVH
\* (0: the loop found none, from and to stay waypoints[0])
Bracket(scrollVH, wps) ==
  LET hits == { i \in 1..(Len(wps) - 1) :
                  /\ scrollVH >= wps[i].scrollStart
                  /\ scrollVH < wps[i + 1].scrollStart }
  IN IF hits = {} THEN 0 ELSE CHOOSE i \in hits : \A j \in hits : i <= j

\* progress < 0.5 ? 2 p p : 1 - (-2p + 2)^2 / 2
EaseInOut(p) ==
  IF 2 * p < Unit
    THEN RoundDiv(2 * p * p, Unit)
    ELSE Unit - RoundDiv((2 * Unit - 2 * p) * (2 * Unit - 2 * p), 2 * Unit)

\* faulty variant: the last waypoint is returned only strictly past its scrollStart
PastLastOnly(scrollVH, wps) == scrollVH > wps[Len(wps)].scrollStart

\* the test that returns the last waypoint
AtOrPastLast(scrollVH, wps) == scrollVH >= wps[Len(wps)].scrollStart

\* faulty variant: the fraction is taken of scrollVH itself, not of its
\* distance from the bracketing pair's first waypoint
getTargetFromScrollNoOffset(scrollVH, wps) ==
  LET i    == Bracket(scrollVH, wps)
      from == IF i = 0 THEN wps[1] ELSE wps[i]
      to   == IF i = 0 THEN wps[1] ELSE wps[i + 1]
      range == to.scrollStart - from.scrollStart
  IN IF AtOrPastLast(scrollVH, wps) THEN PoseOf(wps[Len(wps)])
     ELSE IF range <= 0 THEN PoseOf(from)
     ELSE LET progress == Min(Unit, RoundDiv(scrollVH * Unit, range))
              t == EaseInOut(progress)
          IN [x     |-> from.x     + RoundDiv((to.x     - from.x)     * t, Unit),
              y     |-> from.y     + RoundDiv((to.y     - from.y)     * t, Unit),
              rotX  |-> from.rotX  + RoundDiv((to.rotX  - from.rotX)  * t, Unit),
              rotY  |-> from.rotY  + RoundDiv((to.rotY  - from.rotY)  * t, Unit),
              scale |-> from.scale + RoundDiv((to.scale - from.scale) * t, Unit)]

getTargetFromScroll(scrollVH, wps) ==
  LET i    == Bracket(scrollVH, wps)
      from == IF i = 0 THEN wps[1] ELSE wps[i]
      to   == IF i = 0 THEN wps[1] ELSE wps[i + 1]
      range == to.scrollStart - from.scrollStart
  IN IF AtOrPastLast(scrollVH, wps) THEN PoseOf(wps[Len(wps)])
     ELSE IF range <= 0 THEN PoseOf(from)
     ELSE LET progress == RoundDiv((scrollVH - from.scrollStart) * Unit, range)
              t == EaseInOut(progress)
          IN [x     |-> from.x     + RoundDiv((to.x     - from.x)     * t, Unit),
              y     |-> from.y     + RoundDiv((to.y     - from.y)     * t, Unit),
              rotX  |-> from.rotX  + RoundDiv((to.rotX  - from.rotX)  * t, Unit),
              rotY  |-> from.rotY  + RoundDiv((to.rotY  - from.rotY)  * t, Unit),
              scale |-> from.scale + RoundDiv((to.scale - from.scale) * t, Unit)]

\* faulty variant: the ratio is handed on without the clamp
UnclampedProgress(sy, wh, sh) ==
  LET maxScroll == sh - wh
      adjustedScroll == sy - STICKY_THRESHOLD
      adjustedMax == maxScroll - STICKY_THRESHOLD
  IN IF adjustedMax > 0 THEN RoundDiv(adjustedScroll * Unit, adjustedMax) ELSE 0

\* scrollProgress of animate, clamped by Math.max(0, Math.min(1, .))
ClampedProgress(sy, wh, sh) ==
  LET maxScroll == sh - wh
      adjustedScroll == sy - STICKY_THRESHOLD
      adjustedMax == maxScroll - STICKY_THRESHOLD
      scrollProgress ==
        IF adjustedMax > 0 THEN RoundDiv(adjustedScroll * Unit, adjustedMax) ELSE 0
  IN Max(0, Min(Unit, scrollProgress))

\* the else branch of the sticky regime: the pose is assigned
StickySnap(targetY) ==
  [x |-> 30 * Unit, y |-> targetY, rotX |-> 0, rotY |-> 0, scale |-> Unit]

\* the wasInAnimationPhase branch of the sticky regime: the pose is eased
StickyEase(cur, targetY) ==
  [x     |-> lerp(cur.x, 30 * Unit, 10),
   y     |-> lerp(cur.y, targetY, 10),
   rotX  |-> lerp(cur.rotX, 0, 8),
   rotY  |-> lerp(cur.rotY, 0, 8),
   scale |-> lerp(cur.scale, Unit, 10)]

\* faulty variant: one bound is enough to clear the flag
SettledAnyOf(cur) ==
  \/ Abs(cur.x - 30 * Unit) < 50
  \/ Abs(cur.rotX) < 100
  \/ Abs(cur.rotY) < 100

\* faulty variant: x is compared with 0, as the rotations are, instead of
\* with its rest value 30
SettledAtZero(cur) ==
  /\ Abs(cur.x) < 50
  /\ Abs(cur.rotX) < 100
  /\ Abs(cur.rotY) < 100

\* |x - 30| < 0.05 && |rotX| < 0.1 && |rotY| < 0.1
Settled(cur) ==
  /\ Abs(cur.x - 30 * Unit) < 50
  /\ Abs(cur.rotX) < 100
  /\ Abs(cur.rotY) < 100

\* the flag after a sticky tick that eased the pose to `eased`
FlagAfterEase(eased) == ~Settled(eased)

\* faulty variant: the animation regime assigns the target
AnimSnap(cur, target) == target

\* faulty variant: the rotations follow with a blend of 0.02 instead of 0.05
AnimEaseSluggish(cur, target) ==
  [x     |-> lerp(cur.x, target.x, 6),
   y     |-> lerp(cur.y, target.y, 6),
   rotX  |-> lerp(cur.rotX, target.rotX, 2),
   rotY  |-> lerp(cur.rotY, target.rotY, 2),
   scale |-> lerp(cur.scale, target.scale, 6)]

\* the five lerps of the animation regime
AnimEase(cur, target) ==
  [x     |-> lerp(cur.x, target.x, 6),
   y     |-> lerp(cur.y, target.y, 6),
   rotX  |-> lerp(cur.rotX, target.rotX, 5),
   rotY  |-> lerp(cur.rotY, target.rotY, 5),
   scale |-> lerp(cur.scale, target.scale, 6)]

\* requestAnimationFrame hands out a handle other than the one that just ran
NewFrame(h) == (h % FrameHandles) + 1

\* faulty variant: the cleanup cancels nothing
CancelNothing(pending, id) == pending

\* if (rafId) cancelAnimationFrame(rafId)
CancelFrame(pending, id) == IF id # 0 THEN pending \ {id} ELSE pending

(***************************************************************************)
(* Scroll choreographer: state machine                                     *)
(***************************************************************************)
NoTick ==
  [kind |-> "none", scrollY |-> 0, before |-> InitialPose,
   flagBefore |-> FALSE, progress |-> 0, target |-> InitialPose]

PoseInit ==
  /\ winHeight \in WinHeights
  /\ scrollHeight \in ScrollHeights
  /\ scrollY \in { v \in ScrollOffsets : v <= scrollHeight }
  /\ current = InitialPose
  /\ wasInAnimationPhase = FALSE
  /\ rafId = 1
  /\ pendingFrames = {1}
  /\ modelRotation = [x |-> 0, y |-> 0]
  /\ transform = <<>>
  /\ torn = FALSE
  /\ last = NoTick
  /\ held = 0
  /\ start = [pose |-> InitialPose, flag |-> FALSE]
  /\ scrolls = 0
  /\ atTeardown = [pose |-> InitialPose, rot |-> [x |-> 0, y |-> 0]]

PoseIdle(wh) ==
  /\ winHeight = wh
  /\ scrollHeight = 5750
  /\ scrollY = 0
  /\ current = InitialPose
  /\ wasInAnimationPhase = FALSE
  /\ rafId = 0
  /\ pendingFrames = {}
  /\ modelRotation = [x |-> 0, y |-> 0]
  /\ transform = <<>>
  /\ torn = FALSE
  /\ last = NoTick
  /\ held = 0
  /\ start = [pose |-> InitialPose, flag |-> FALSE]
  /\ scrolls = 0
  /\ atTeardown = [pose |-> InitialPose, rot |-> [x |-> 0, y |-> 0]]

\* what both regimes do after computing the pose: transform, rotation
\* scalars, re-schedule
FinishTick(h, next) ==
  /\ current' = next
  /\ transform' = <<next.x, next.y, next.scale>>
  /\ modelRotation' = [x |-> next.rotX, y |-> next.rotY]
  /\ rafId' = NewFrame(h)
  /\ pendingFrames' = (pendingFrames \ {h}) \cup {NewFrame(h)}
  /\ held' = Min(held + 1, HoldTicks)
  /\ UNCHANGED <<scrollY, winHeight, scrollHeight, torn, start, scrolls, atTeardown>>

\* animate, scrollY < STICKY_THRESHOLD
StickyTick ==
  \E h \in pendingFrames :
    /\ scrollY < STICKY_THRESHOLD
    /\ LET targetY == StickyTargetY(scrollY, winHeight)
           eased == StickyEase(current, targetY)
           next == IF wasInAnimationPhase THEN eased ELSE StickySnap(targetY)
       IN /\ wasInAnimationPhase' =
               IF wasInAnimationPhase THEN FlagAfterEase(eased) ELSE FALSE
          /\ last' = [kind |-> IF wasInAnimationPhase THEN "ease" ELSE "snap",
                      scrollY |-> scrollY, before |-> current,
                      flagBefore |-> wasInAnimationPhase, progress |-> 0,
                      target |-> StickySnap(targetY)]
          /\ FinishTick(h, next)

\* animate, scrollY >= STICKY_THRESHOLD
AnimationTick ==
  \E h \in pendingFrames :
    /\ scrollY >= STICKY_THRESHOLD
    /\ LET progress == ClampedProgress(scrollY, winHeight, scrollHeight)
           target == getTargetFromScroll(progress, waypoints(winHeight))
       IN /\ wasInAnimationPhase' = TRUE
          /\ last' = [kind |-> "anim", scrollY |-> scrollY, before |-> current,
                      flagBefore |-> wasInAnimationPhase, progress |-> progress,
                      target |-> target]
          /\ FinishTick(h, AnimEase(current, target))

\* the host reports another scroll offset
Scroll ==
  \E v \in ScrollOffsets :
    /\ scrolls < MaxScrolls
    /\ v # scrollY
    /\ v <= scrollHeight
    /\ scrollY' = v
    /\ scrolls' = scrolls + 1
    /\ held' = 0
    /\ start' = [pose |-> current, flag |-> wasInAnimationPhase]
    /\ UNCHANGED <<winHeight, scrollHeight, current, wasInAnimationPhase, rafId,
                   pendingFrames, modelRotation, transform, torn, last, atTeardown>>

\* the effect's cleanup
Teardown ==
  /\ ~torn
  /\ torn' = TRUE
  /\ pendingFrames' = CancelFrame(pendingFrames, rafId)
  /\ atTeardown' = [pose |-> current, rot |-> modelRotation]
  /\ UNCHANGED <<scrollY, winHeight, scrollHeight, current, wasInAnimationPhase,
                 rafId, modelRotation, transform, last, held, start, scrolls>>

(***************************************************************************)
(* Waypoint lookup called on its own                                       *)
(***************************************************************************)
LookupInit ==
  /\ lookupIn \in 0..Unit
  /\ lookupOut = InitialPose
  /\ lookupDone = FALSE

LookupIdle ==
  /\ lookupIn = 0
  /\ lookupOut = InitialPose
  /\ lookupDone = FALSE

Lookup ==
  /\ ~lookupDone
  /\ lookupDone' = TRUE
  /\ lookupOut' = getTargetFromScroll(lookupIn, waypoints(winHeight))
  /\ UNCHANGED lookupIn

(***************************************************************************)
(* CardFan carousel                                                        *)
(***************************************************************************)

\* faulty variant: the wrap test is off by one
NextCardLateWrap(prev) == IF prev > 6 THEN 1 ELSE prev + 1

\* prev => prev >= 6 ? 1 : prev + 1
NextCard(prev) == IF prev >= 6 THEN 1 ELSE prev + 1

\* prev => prev <= 1 ? 6 : prev - 1
PrevCard(prev) == IF prev <= 1 THEN 6 ELSE prev - 1

\* setInterval hands out a handle no running interval has
NewInterval(running) == CHOOSE h \in 1..(Cardinality(running) + 1) : h \notin running

\* startAutoSwitch: <<intervalRef, intervals>> after the call
startAutoSwitch(ref, running) ==
  IF ref # 0 THEN <<ref, running>>
  ELSE <<NewInterval(running), running \cup {NewInterval(running)}>>

\* faulty variant: the reference is dropped but the interval is not cleared
stopAutoSwitchKeepsTimer(ref, running) == <<0, running>>

\* stopAutoSwitch: <<intervalRef, intervals>> after the call
stopAutoSwitch(ref, running) ==
  IF ref # 0 THEN <<0, running \ {ref}>> ELSE <<ref, running>>

\* a fresh CardFan instance whose mount effect has run; the pointer may
\* already rest on a card
CardInit ==
  /\ mounted = TRUE
  /\ activeCard = 1
  /\ isHovering = FALSE
  /\ scrollAccum = 0
  /\ intervalRef = startAutoSwitch(0, {})[1]
  /\ intervals = startAutoSwitch(0, {})[2]
  /\ pointerOnCard \in BOOLEAN
  /\ autoTicks = 0
  /\ undisturbed = TRUE
  /\ entered = FALSE
  /\ cardEvent = "mount"

CardIdle ==
  /\ mounted = FALSE
  /\ activeCard = 1
  /\ isHovering = FALSE
  /\ scrollAccum = 0
  /\ intervalRef = 0
  /\ intervals = {}
  /\ pointerOnCard = FALSE
  /\ autoTicks = 0
  /\ undisturbed = TRUE
  /\ entered = FALSE
  /\ cardEvent = "none"

\* a new CardFan instance is rendered and its mount effect runs
Mount ==
  /\ ~mounted
  /\ mounted' = TRUE
  /\ activeCard' = 1
  /\ isHovering' = FALSE
  /\ scrollAccum' = 0
  /\ intervalRef' = startAutoSwitch(0, intervals)[1]
  /\ intervals' = startAutoSwitch(0, intervals)[2]
  /\ pointerOnCard' \in BOOLEAN
  /\ autoTicks' = 0
  /\ undisturbed' = TRUE
  /\ entered' = FALSE
  /\ cardEvent' = "mount"

\* the mount effect's cleanup: stopAutoSwitch
Unmount ==
  /\ mounted
  /\ mounted' = FALSE
  /\ intervalRef' = stopAutoSwitch(intervalRef, intervals)[1]
  /\ intervals' = stopAutoSwitch(intervalRef, intervals)[2]
  /\ pointerOnCard' = FALSE
  /\ entered' = FALSE
  /\ cardEvent' = "unmount"
  /\ UNCHANGED <<activeCard, isHovering, scrollAccum, autoTicks, undisturbed>>

\* the interval callback
IntervalFire ==
  /\ autoTicks < MaxAutoTicks
  /\ \E h \in intervals :
       /\ activeCard' = NextCard(activeCard)
       /\ autoTicks' = autoTicks + 1
       /\ cardEvent' = "fire"
       /\ UNCHANGED <<mounted, isHovering, scrollAccum, intervalRef, intervals,
                      pointerOnCard, undisturbed, entered>>

handleMouseEnter ==
  /\ mounted
  /\ ~pointerOnCard
  /\ pointerOnCard' = TRUE
  /\ isHovering' = TRUE
  /\ intervalRef' = stopAutoSwitch(intervalRef, intervals)[1]
  /\ intervals' = stopAutoSwitch(intervalRef, intervals)[2]
  /\ undisturbed' = FALSE
  /\ entered' = TRUE
  /\ cardEvent' = "enter"
  /\ UNCHANGED <<mounted, activeCard, scrollAccum, autoTicks>>

handleMouseLeave ==
  /\ mounted
  /\ pointerOnCard
  /\ pointerOnCard' = FALSE
  /\ isHovering' = FALSE
  /\ scrollAccum' = 0
  /\ intervalRef' = startAutoSwitch(intervalRef, intervals)[1]
  /\ intervals' = startAutoSwitch(intervalRef, intervals)[2]
  /\ undisturbed' = FALSE
  /\ entered' = FALSE
  /\ cardEvent' = "leave"
  /\ UNCHANGED <<mounted, activeCard, autoTicks>>

\* the window's wheel listener, installed while the component is mounted
handleWheel ==
  \E delta \in WheelDeltas :
    /\ mounted
    /\ isHovering
    /\ LET accum == scrollAccum + delta
       IN IF accum > 80
            THEN activeCard' = NextCard(activeCard) /\ scrollAccum' = 0
          ELSE IF accum < -80
            THEN activeCard' = PrevCard(activeCard) /\ scrollAccum' = 0
          ELSE activeCard' = activeCard /\ scrollAccum' = accum
    /\ undisturbed' = FALSE
    /\ cardEvent' = "wheel"
    /\ UNCHANGED <<mounted, isHovering, intervalRef, intervals, pointerOnCard,
                   autoTicks, entered>>

(***************************************************************************)
(* Marquee                                                                 *)
(***************************************************************************)

\* faulty variant: the leave handler clears no timeout
ClearNoTimeout(pending, ref) == pending

\* if (marqueeTimeoutRef.current) clearTimeout(marqueeTimeoutRef.current)
ClearMarqueeTimeout(pending, ref) == IF ref # 0 THEN pending \ {ref} ELSE pending

\* App has rendered; the pointer may already rest on the track
MarqueeInit ==
  /\ marqueePaused = FALSE
  /\ marqueeTimeoutRef = 0
  /\ timeouts = {}
  /\ timeoutCount = 0
  /\ pointerOnTrack \in BOOLEAN
  /\ lastHover = "none"
  /\ pausedBy = 0

MarqueeIdle ==
  /\ marqueePaused = FALSE
  /\ marqueeTimeoutRef = 0
  /\ timeouts = {}
  /\ timeoutCount = 0
  /\ pointerOnTrack = FALSE
  /\ lastHover = "none"
  /\ pausedBy = 0

\* mouseenter on the one element that carries the handlers
handleMarqueeEnter ==
  /\ ~pointerOnTrack
  /\ timeoutCount < MaxTimeouts
  /\ pointerOnTrack' = TRUE
  /\ timeoutCount' = timeoutCount + 1
  /\ marqueeTimeoutRef' = timeoutCount + 1
  /\ timeouts' = timeouts \cup {timeoutCount + 1}
  /\ lastHover' = "enter"
  /\ UNCHANGED <<marqueePaused, pausedBy>>

handleMarqueeLeave ==
  /\ pointerOnTrack
  /\ pointerOnTrack' = FALSE
  /\ timeouts' = ClearMarqueeTimeout(timeouts, marqueeTimeoutRef)
  /\ marqueePaused' = FALSE
  /\ lastHover' = "leave"
  /\ UNCHANGED <<marqueeTimeoutRef, timeoutCount, pausedBy>>

\* the 100 ms timeout's callback
MarqueeTimeoutFire ==
  \E h \in timeouts :
    /\ timeouts' = timeouts \ {h}
    /\ marqueePaused' = TRUE
    /\ pausedBy' = h
    /\ UNCHANGED <<marqueeTimeoutRef, timeoutCount, pointerOnTrack, lastHover>>

(***************************************************************************)
(* Specifications                                                          *)
(***************************************************************************)
InitPose == PoseInit /\ LookupIdle /\ CardIdle /\ MarqueeIdle

NextPose ==
  \/ StickyTick /\ UNCHANGED <<lookupVars, cardVars, marqueeVars>>
  \/ AnimationTick /\ UNCHANGED <<lookupVars, cardVars, marqueeVars>>
  \/ Scroll /\ UNCHANGED <<lookupVars, cardVars, marqueeVars>>
  \/ Teardown /\ UNCHANGED <<lookupVars, cardVars, marqueeVars>>

SpecPose == InitPose /\ [][NextPose]_vars

\* the host runs a pending frame callback at its next display refresh: a
\* tick that stays enabled is eventually taken.  The fairness is stated
\* for the sticky ticks, the ones a behaviour that stays below the
\* threshold goes on taking.
StickyStep ==
  StickyTick /\ UNCHANGED <<lookupVars, cardVars, marqueeVars>>

\* the choreographer under one captured viewport height (the exit test of
\* the flag reads x and the rotations, none of which depends on it)
InitPoseFair == InitPose /\ winHeight = 600

SpecPoseFair == InitPoseFair /\ [][NextPose]_vars /\ WF_vars(StickyStep)

\* the waypoint lookup applied to every progress in [0, 1]
InitLookup ==
  \E wh \in WinHeights : PoseIdle(wh) /\ LookupInit /\ CardIdle /\ MarqueeIdle

NextLookup == Lookup /\ UNCHANGED <<poseVars, cardVars, marqueeVars>>

SpecLookup == InitLookup /\ [][NextLookup]_vars

\* the two hover-driven timers of the page
InitTimers == PoseIdle(600) /\ LookupIdle /\ CardInit /\ MarqueeInit

NextTimers ==
  \/ Mount /\ UNCHANGED <<poseVars, lookupVars, marqueeVars>>
  \/ Unmount /\ UNCHANGED <<poseVars, lookupVars, marqueeVars>>
  \/ IntervalFire /\ UNCHANGED <<poseVars, lookupVars, marqueeVars>>
  \/ handleMouseEnter /\ UNCHANGED <<poseVars, lookupVars, marqueeVars>>
  \/ handleMouseLeave /\ UNCHANGED <<poseVars, lookupVars, marqueeVars>>
  \/ handleWheel /\ UNCHANGED <<poseVars, lookupVars, marqueeVars>>
  \/ handleMarqueeEnter /\ UNCHANGED <<poseVars, lookupVars, cardVars>>
  \/ handleMarqueeLeave /\ UNCHANGED <<poseVars, lookupVars, cardVars>>
  \/ MarqueeTimeoutFire /\ UNCHANGED <<poseVars, lookupVars, cardVars>>

SpecTimers == InitTimers /\ [][NextTimers]_vars

(***************************************************************************)
(* Properties                                                              *)
(***************************************************************************)
\* the pose the sticky regime is said to drive to, at the offset the last
\* tick read
RestTarget ==
  [x |-> 30 * Unit,
   y |-> 56 * Unit - RoundDiv(last.scrollY * 100 * Unit, winHeight),
   rotX |-> 0, rotY |-> 0, scale |-> Unit]

\* blend factors (hundredths) of the eased sticky regime and of the
\* animation regime
StickyBlend == [x |-> 10, y |-> 10, rotX |-> 8, rotY |-> 8, scale |-> 10]
AnimBlend == [x |-> 6, y |-> 6, rotX |-> 5, rotY |-> 5, scale |-> 6]

TickBlend == IF last.kind = "anim" THEN AnimBlend ELSE StickyBlend

\* C1: a tick that reads a scroll offset below 150 drives the pose to
\* x = 30, rotX = 0, rotY = 0, scale = 1, y = 56 - offset/viewportHeight*100:
\* with the was-animating flag clear every field is assigned that target,
\* with the flag set every field is eased toward it.
C1_StickyTarget ==
  (last.kind # "none" /\ last.scrollY < STICKY_THRESHOLD) =>
    /\ last.kind = (IF last.flagBefore THEN "ease" ELSE "snap")
    /\ last.target = RestTarget
    /\ ~last.flagBefore => current = RestTarget
    /\ last.flagBefore =>
         \A f \in PoseFields :
           current[f] = lerp(last.before[f], RestTarget[f], StickyBlend[f])

\* C1 witness: an eased sticky tick at a non-zero offset has moved the pose
C1_Witness ==
  /\ last.kind = "ease"
  /\ last.scrollY = 149
  /\ current.x # last.before.x
  /\ current.y # last.before.y
  /\ current.rotY # last.before.rotY

\* C2 as stated: in every regime, a field that differs from its target
\* before a tick still differs from it after the tick.
C2_NeverSnapsAnyRegime ==
  last.kind # "none" =>
    \A f \in PoseFields :
      last.before[f] # last.target[f] => current[f] # last.target[f]

\* C2 amended: in the sticky regime with the flag set and in the animation
\* regime a field that differs from its target before a tick still differs
\* from it after the tick, having moved by its blend fraction; in the sticky
\* regime with the flag clear the tick assigns every field its target.
C2_EasedTicksNeverSnap ==
  /\ last.kind \in {"ease", "anim"} =>
       \A f \in PoseFields :
         /\ current[f] = lerp(last.before[f], last.target[f], TickBlend[f])
         /\ last.before[f] # last.target[f] => current[f] # last.target[f]
  /\ last.kind = "snap" => current = last.target

\* C2 witness: an animation tick moved every field toward a target it has
\* not reached
C2_Witness ==
  /\ last.kind = "anim"
  /\ \A f \in PoseFields :
       /\ last.before[f] # last.target[f]
       /\ current[f] # last.before[f]
       /\ current[f] # last.target[f]

\* the three bounds of the flag's exit test, on the pose after the tick
WithinExitBounds ==
  /\ Abs(current.x - 30 * Unit) < 50
  /\ Abs(current.rotX) < 100
  /\ Abs(current.rotY) < 100

\* C3: a tick at offset >= 150 leaves the flag set; a set flag is cleared
\* only by a sticky tick after whose easing step |x - 30| < 0.05,
\* |rotX| < 0.1 and |rotY| < 0.1 all hold, and by every such tick; a clear
\* flag is set only by a tick at offset >= 150.
C3_FlagLifetime ==
  last.kind # "none" =>
    /\ last.scrollY >= STICKY_THRESHOLD => wasInAnimationPhase
    /\ (last.flagBefore /\ ~wasInAnimationPhase) =>
         (last.scrollY < STICKY_THRESHOLD /\ last.kind = "ease" /\ WithinExitBounds)
    /\ (last.flagBefore /\ last.scrollY < STICKY_THRESHOLD /\ WithinExitBounds) =>
         ~wasInAnimationPhase
    /\ (~last.flagBefore /\ wasInAnimationPhase) =>
         last.scrollY >= STICKY_THRESHOLD

\* C3 witness: the flag was cleared by a sticky tick that had to ease x and
\* a rotation into their bounds
C3_Witness ==
  /\ last.kind = "ease"
  /\ last.flagBefore
  /\ ~wasInAnimationPhase
  /\ held > 10
  /\ Abs(last.before.rotY) >= 100

\* the runs C4 is about: the offset has been unchanged for HoldTicks ticks,
\* in the animation regime or in the sticky regime entered with the flag set
HeldEasedRun ==
  /\ held = HoldTicks
  /\ \/ last.kind = "anim"
     \/ last.kind \in {"ease", "snap"} /\ start.flag

\* C4 as stated: after 60 ticks at an unchanged offset every field is
\* within 0.01 of its target.
C4_Within001After60 ==
  HeldEasedRun =>
    \A f \in PoseFields : Abs(current[f] - last.target[f]) <= 10

\* C4 amended: after 60 ticks at an unchanged offset every field's distance
\* from its target is at most 0.01 plus 5% of its distance when the run
\* began.
C4_Within5PercentAfter60 ==
  HeldEasedRun =>
    \A f \in PoseFields :
      100 * Abs(current[f] - last.target[f])
        <= 5 * Abs(start.pose[f] - last.target[f]) + 100 * 10

\* C4 witness: 60 animation ticks at one offset, from a pose reached by
\* earlier scrolling, with a rotation still more than 0.01 off its target
C4_Witness ==
  /\ HeldEasedRun
  /\ last.kind = "anim"
  /\ scrolls = 1
  /\ start.pose # InitialPose
  /\ Abs(current.rotY - last.target.rotY) > 10

\* C5: between a hover-enter and the next hover-leave no interval is
\* running and none fires; after the hover-leave exactly the interval the
\* component refers to is running again.
C5_HoverHaltsAutoAdvance ==
  /\ entered => intervals = {}
  /\ cardEvent = "fire" => ~entered
  /\ cardEvent = "leave" => (intervalRef # 0 /\ intervals = {intervalRef})

\* C5 witness: the pointer entered a card after the carousel had advanced
\* on its own
C5_Witness ==
  /\ entered
  /\ cardEvent = "enter"
  /\ autoTicks >= 2

\* C6: with no hover and no wheel input since mount, after k auto-advance
\* ticks the active card is (k mod 6) + 1; the active card is always one
\* of 1..6.
C6_AutoAdvanceCycles ==
  /\ activeCard \in 1..6
  /\ undisturbed => activeCard = (autoTicks % 6) + 1

\* C6 witness: six undisturbed ticks have wrapped the carousel to card 1
C6_Witness ==
  /\ undisturbed
  /\ autoTicks = 6
  /\ activeCard = 1

\* C7: until teardown exactly one frame callback is pending, the one the
\* last tick scheduled; after teardown none is pending, and the pose and
\* the two rotation scalars keep the values they had at teardown.
C7_OnePendingFrameUntilTeardown ==
  /\ ~torn => pendingFrames = {rafId}
  /\ torn => /\ pendingFrames = {}
             /\ current = atTeardown.pose
             /\ modelRotation = atTeardown.rot

\* C7 witness: teardown after ticks of both regimes
C7_Witness ==
  /\ torn
  /\ last.kind = "anim"
  /\ scrolls = 1
  /\ start.pose # InitialPose \/ start.flag

\* C8 as stated: before the first tick the pose equals the first waypoint
\* in all five fields.
C8_StartsAtFirstWaypoint ==
  last.kind = "none" => current = PoseOf(waypoints(winHeight)[1])

\* C8 amended: before the first tick the pose equals the first waypoint in
\* x, rotX, rotY and scale, and its y is 56, above the first waypoint's
\* y = 56 - 150/viewportHeight*100.
C8_StartsAtRest ==
  last.kind = "none" =>
    LET w == waypoints(winHeight)[1]
    IN /\ current.x = w.x
       /\ current.rotX = w.rotX
       /\ current.rotY = w.rotY
       /\ current.scale = w.scale
       /\ current.y = 56 * Unit
       /\ current.y > w.y

\* C8 witness: no tick has run, in the taller viewport, after a scroll
C8_Witness ==
  /\ last.kind = "none"
  /\ winHeight = 1000
  /\ scrolls = 1

C10_LastWaypointExact ==
  (lookupDone /\ lookupIn >= 1 * Unit /\ lookupIn <= 1 * Unit) =>
    lookupOut = [x |-> 50 * Unit, y |-> 92 * Unit, rotX |-> 360 * Unit,
                 rotY |-> 720 * Unit, scale |-> 300]

\* C10 witness: the lookup has been called with progress 1
C10_Witness ==
  /\ lookupDone
  /\ lookupIn = Unit

\* C11: called with progress exactly equal to a waypoint's scrollStart, the
\* lookup returns that waypoint's x, y, rotX, rotY and scale, for each of
\* the seven waypoints.
C11_BoundaryExact ==
  lookupDone =>
    \A i \in 1..Len(waypoints(winHeight)) :
      lookupIn = waypoints(winHeight)[i].scrollStart =>
        lookupOut = PoseOf(waypoints(winHeight)[i])

\* C11 witness: the lookup has been called at the scrollStart of an inner
\* waypoint, whose values differ from the first and the last
C11_Witness ==
  /\ lookupDone
  /\ lookupIn = waypoints(winHeight)[4].scrollStart
  /\ lookupOut.x = 80 * Unit
  /\ lookupOut.rotY = 270 * Unit

\* the scrollable range left after the threshold, as the last tick saw it
RangeLeft == scrollHeight - winHeight - STICKY_THRESHOLD

\* C12: on every animation tick the progress handed to the lookup lies in
\* [0, 1]: it is 0 when the range left after the threshold is zero or
\* negative, and otherwise the ratio (offset - 150) / range cut to [0, 1].
C12_ProgressInUnitInterval ==
  last.kind = "anim" =>
    /\ last.progress >= 0
    /\ last.progress <= Unit
    /\ RangeLeft <= 0 => last.progress = 0
    /\ RangeLeft > 0 =>
         LET ratio == RoundDiv((last.scrollY - STICKY_THRESHOLD) * Unit, RangeLeft)
         IN last.progress = (IF ratio > Unit THEN Unit ELSE IF ratio < 0 THEN 0 ELSE ratio)
    /\ last.target = getTargetFromScroll(last.progress, waypoints(winHeight))

\* C12 witness: an animation tick on a page with no range left after the
\* threshold
C12_Witness ==
  /\ last.kind = "anim"
  /\ RangeLeft < 0
  /\ last.scrollY = 350
  /\ last.progress = 0

\* C12, a further case reached: the range left is exactly 0
C12_ZeroRangeReached ==
  /\ last.kind = "anim"
  /\ RangeLeft = 0
  /\ last.progress = 0

\* C12, a further case reached: the ratio exceeded 1 and was cut to 1
C12_ClampReached ==
  /\ last.kind = "anim"
  /\ RangeLeft > 0
  /\ last.scrollY - STICKY_THRESHOLD > RangeLeft
  /\ last.progress = Unit

\* C13: if from some point on the offset stays below 150 and ticks keep
\* running (no teardown), the was-animating flag is eventually false for
\* good; and every sticky tick that starts with the flag clear leaves it
\* clear and leaves the pose equal to x = 30, rotX = 0, rotY = 0, scale = 1,
\* y = 56 - offset/viewportHeight*100.
C13_FlagClearsThenPoseIsTarget ==
  /\ (<>[](scrollY < STICKY_THRESHOLD /\ ~torn)) => <>[](~wasInAnimationPhase)
  /\ []((last.kind # "none" /\ last.scrollY < STICKY_THRESHOLD /\ ~last.flagBefore)
          => (~wasInAnimationPhase /\ current = RestTarget))

\* C13 witness: the offset came back below 150 with the flag set, the flag
\* has been cleared, and a later tick has put the pose on the sticky target
C13_Witness ==
  /\ scrollY < STICKY_THRESHOLD
  /\ start.flag
  /\ start.pose.rotY > 100
  /\ ~wasInAnimationPhase
  /\ last.kind = "snap"
  /\ current = RestTarget

====
